---- MODULE Spec2Model ----
(***************************************************************************)
(* ActiveTargetSim: the user classes the Geant4 kernel drives              *)
(* (DetectorConstruction, RunAction, EventAction, SteppingAction,          *)
(* TrackingAction) and the assembly of them in main.cc.                    *)
(*                                                                         *)
(* The kernel is the environment.  It calls the hooks in its fixed order:  *)
(* Construct once, BeginOfRunAction, then per event BeginOfEventAction,    *)
(* per track PreUserTrackingAction, UserSteppingAction for step numbers    *)
(* 1, 2, ... until the track is killed, PostUserTrackingAction, then       *)
(* EndOfEventAction, and EndOfRunAction at the end of the run.             *)
(*                                                                         *)
(* The quantities of a step record are in Geant4's internal units, where   *)
(* MeV = 1 and mm = 1, so the divisions "energy / MeV" and "z / mm" of the *)
(* source leave the number as it is.  The lengths of the geometry have a   *)
(* finer unit, see DetectorConstruction below.                             *)
(***************************************************************************)
EXTENDS Integers, Sequences, FiniteSets

VARIABLES
    pc,                \* position of the kernel in its lifecycle
    fDetectorType,     \* DetectorConstruction::fDetectorType
    lvs,               \* the G4LogicalVolume objects allocated so far; a volume's
                       \* identity (its address) is its index in this sequence
    fTargetVolumes,    \* DetectorConstruction::fTargetVolumes (logical volumes)
    fScoringVolume,    \* DetectorConstruction::fScoringVolume (0 is nullptr)
    pvs,               \* the G4PVPlacement objects made so far, identified as the volumes are
    fTargetPlacements, \* DetectorConstruction::fTargetPlacements (physical volumes)
    fDTZStart,         \* DetectorConstruction::fDTZStart
    fDTZCenter,        \* DetectorConstruction::fDTZCenter
    fDTZEnd,           \* DetectorConstruction::fDTZEnd
    sensitiveVolumes,  \* the logical volumes a sensitive detector was attached to
    globalField,       \* the field manager of the transportation manager has a field
    localFieldVolumes, \* the logical volumes given a field manager of their own
    worldVolume,       \* the physical volume Construct returned to the kernel (0 is nullptr)
    nistMaterials,     \* the base materials G4NistManager can find or build
    userEventAction,   \* G4RunManager::GetUserEventAction(): "null" or "EventAction"
    fKeepThisEvent,    \* EventAction::fKeepThisEvent
    keepTheEvent,      \* the kernel's flag of the current event, set by KeepTheCurrentEvent()
    h1,                \* G4AnalysisManager's H1 histograms; histogram id k is h1[k + 1]
    track,             \* the current G4Track: particle, step number, status
    primaryDone,       \* the primary of the current event has been tracked
    nSteps,            \* step callbacks delivered in the session
    nSignals,          \* SetKeepEvent calls made since the kernel began the current event
    sawCreation,       \* a step-1 record of a tracked species was processed in this event
    nTargetStops,      \* tracked-species fStopAndKill records whose pre-step volume is registered
    nUnresolvedStops,  \* tracked-species fStopAndKill records whose pre-step volume is not
    fMuonStoppingHist, \* RunAction::fMuonStoppingHist
    built,             \* the detector types of the Construct calls that built a geometry, in order
    rootFile,          \* convert_histograms: whether ../muon_output.root opens and the histograms in it
    histIndex,         \* convert_histograms: the names of histNames the loop has done
    plots,             \* convert_histograms: the files written by SaveAs, in order
    notFound,          \* convert_histograms: the names reported as not found, in order
    nViolations,       \* history: the calls made against the documented order of the callbacks
    delivered          \* what the kernel delivered in tracked-species records so far:
                       \* the energies at step 1 and, of the fStopAndKill records, the z,
                       \* the exact radii, and the registry positions of the registered volumes

vars == << pc, fDetectorType, lvs, fTargetVolumes, fScoringVolume, userEventAction,
           fKeepThisEvent, keepTheEvent, h1, track, primaryDone, nSteps, nSignals,
           sawCreation, nTargetStops, nUnresolvedStops, delivered, pvs,
           fTargetPlacements, fDTZStart, fDTZCenter, fDTZEnd, sensitiveVolumes,
           globalField, localFieldVolumes, worldVolume, nistMaterials,
           fMuonStoppingHist, built, rootFile, histIndex, plots, notFound,
           nViolations >>

(***************************************************************************)
(* Bounds of the exploration                                               *)
(***************************************************************************)
MaxSteps == 3

\* Construct calls on one DetectorConstruction
MaxBuilds == 3

\* Callbacks an integrating engine invokes against the documented order
MaxViolations == 1

\* Runs (/run/beamOn) of one session
MaxRuns == 2

(***************************************************************************)
(* Inputs the kernel can hand to the hooks                                 *)
(***************************************************************************)
\* PrimaryGeneratorAction: the gun shoots one proton per event
Primary == "proton"

\* the species of the secondaries
Particles == {"mu+", "mu-", "proton"}

TrackStatuses == {"fAlive", "fStopAndKill"}

\* kinetic energies, MeV
Energies == {55, 20}

\* positions <<x, y, z>>, mm; x*x + y*y is a perfect square in each of them,
\* so the double-precision square root of the source is exact
Positions == {<<3, 4, -90>>, <<0, 0, 25>>}

\* the step records the kernel delivers: a kinetic energy and a position
StepRecords == {[energy |-> 55, pos |-> <<3, 4, -90>>],
                [energy |-> 20, pos |-> <<0, 0, 25>>]}

DetectorTypes == {"carbonStack", "alternatingLayers", "muonTarget", "openMuonTarget", "bogus"}

NoTrack == [particle |-> "none", stepNo |-> 0, status |-> "none"]

(***************************************************************************)
(* DetectorConstruction                                                    *)
(*                                                                         *)
(* The lengths of the geometry are counted in hundredths of a millimetre,  *)
(* so that every length of the source and every half of one is an integer  *)
(* and the arithmetic of the source, which is exact in double precision    *)
(* for these values, is exact here too.                                    *)
(***************************************************************************)
mm == 100

cm == 10 * mm

m == 1000 * mm

nPlates == 5

nLayers == 5

numConverters == 5

nThicknesses == 3

\* ConstructCarbonStack
plateThickness == 2 * mm

plateGap == 10 * mm

\* ConstructAlternatingLayers
tungstenThickness == 1 * mm

graphiteThickness == 2 * mm

\* ConstructStackedTargetGeometry and ConstructOpenMuonTarget
targetThickness == 1 * mm

targetZ == -10 * cm

converterThickness == 3 * mm

\* ConstructOpenMuonTarget: 1.0 mm, 0.5 mm, 0.5 mm
thicknesses == << 1 * mm, (5 * mm) \div 10, (5 * mm) \div 10 >>

converterGap == 5 * mm

DT_thickness == 10 * cm

\* the base materials G4NistManager is asked for
BaseMaterials == {"G4_AIR", "G4_C", "G4_GRAPHITE", "G4_W"}

\* nist->FindOrBuildMaterial(name): nullptr when the material cannot be found
FindOrBuildMaterial(available, name) == IF name \in available THEN name ELSE "nullptr"

LV(name, material) == [name |-> name, material |-> material]

\* a G4PVPlacement at (0, 0, z) of a logical volume whose G4Box has the full
\* length thickness along z
PV(name, logical, z, thickness) ==
    [name |-> name, logical |-> logical, z |-> z, thickness |-> thickness]

PlateName(i) == << "Plate_0", "Plate_1", "Plate_2", "Plate_3", "Plate_4" >>[i + 1]

ConverterName(i) ==
    << "Converter_0", "Converter_1", "Converter_2", "Converter_3", "Converter_4" >>[i + 1]

ConverterLVName(i) ==
    << "Converter_0_LV", "Converter_1_LV", "Converter_2_LV", "Converter_3_LV",
       "Converter_4_LV" >>[i + 1]

\* new G4Box, new G4LogicalVolume and new G4PVPlacement of it in the world; the
\* new logical volume is Len(lvs) and the new placement Len(pvs) of the result
NewVolume(g, lvName, material, pvName, z, thickness) ==
    [g EXCEPT !.lvs = Append(@, LV(lvName, material)),
              !.pvs = Append(@, PV(pvName, Len(g.lvs) + 1, z, thickness))]

\* "if (fScoringVolume) { ... fScoringVolume->SetSensitiveDetector(muonSD); }"
AttachSensitiveDetector(g) ==
    IF g.fScoringVolume /= 0
    THEN [g EXCEPT !.sensitiveVolumes = @ \cup {g.fScoringVolume}]
    ELSE g

GasRegionUpstream(g, DT_zPos) ==
    LET placed == NewVolume(g, "DTGasLogical", "DTGas", "DTGasPhysical",
                            DT_zPos - DT_thickness, DT_thickness)
    IN  [placed EXCEPT !.localFieldVolumes = @ \cup {Len(placed.lvs)}]

\* the D-T gas box at (0, 0, DT_zPos), with a field manager of its own
GasRegion(g, DT_zPos) ==
    LET placed == NewVolume(g, "DTGasLogical", "DTGas", "DTGasPhysical", DT_zPos,
                            DT_thickness)
    IN  [placed EXCEPT !.localFieldVolumes = @ \cup {Len(placed.lvs)}]

\* the test that picks the scoring layer in the loops: "i == n - 1"
IsFirst(i, n) == i = 0

IsLast(i, n) == i = n - 1

PlateZNoGap(startZ, i) == startZ + i * plateThickness

\* posZ = startZ + i * (plateThickness + gap)
PlateZ(startZ, i) == startZ + i * (plateThickness + plateGap)

RECURSIVE CarbonPlates(_, _, _, _)
CarbonPlates(g, i, carbon, startZ) ==
    IF i >= nPlates THEN g
    ELSE LET placed == NewVolume(g, PlateName(i), carbon, PlateName(i),
                                 PlateZ(startZ, i), plateThickness)
             logic == Len(placed.lvs)
             pushed == [placed EXCEPT !.fTargetPlacements = Append(@, Len(placed.pvs)),
                                      !.fTargetVolumes = Append(@, logic)]
             scored == IF IsLast(i, nPlates) THEN [pushed EXCEPT !.fScoringVolume = logic]
                       ELSE pushed
         IN  CarbonPlates(scored, i + 1, carbon, startZ)

\* the summary loop reads fTargetPlacements[i], unchecked, for every
\* i < fTargetVolumes.size()
SummaryInBounds(g) == Len(g.fTargetPlacements) >= Len(g.fTargetVolumes)

\* ConstructCarbonStack: a missing G4_C is a fatal G4Exception; then the world,
\* nPlates plates, each registered, the last of them the scoring volume, the
\* sensitive detector, the field of the transportation manager (global), and the
\* summary loop.
ConstructCarbonStack(g, available) ==
    LET air == FindOrBuildMaterial(available, "G4_AIR")
        carbon == FindOrBuildMaterial(available, "G4_C")
    IN  IF carbon = "nullptr" THEN [g EXCEPT !.fatal = TRUE]
        ELSE LET world == NewVolume(g, "World", air, "World", 0, 1 * m)
                 totalLength == nPlates * plateThickness + (nPlates - 1) * plateGap
                 startZ == (-totalLength) \div 2 + plateThickness \div 2
                 plates == CarbonPlates(world, 0, carbon, startZ)
                 sd == AttachSensitiveDetector(plates)
                 field == [sd EXCEPT !.globalField = TRUE]
             IN  [field EXCEPT !.undefined = ~SummaryInBounds(field),
                               !.world = Len(world.pvs)]

\* the loop of ConstructAlternatingLayers; its result is the detector and zPos
RECURSIVE AlternatingLayers(_, _, _, _, _)
AlternatingLayers(g, i, zPos, tungsten, graphite) ==
    IF i >= nLayers THEN [g |-> g, zPos |-> zPos]
    ELSE LET w == NewVolume(g, "TungstenLV", tungsten, "Tungsten",
                            zPos + tungstenThickness \div 2, tungstenThickness)
             wPushed == [w EXCEPT !.fTargetVolumes = Append(@, Len(w.lvs))]
             zW == zPos + tungstenThickness
             c == NewVolume(wPushed, "GraphiteLV", graphite, "Graphite",
                            zW + graphiteThickness \div 2, graphiteThickness)
             cPushed == [c EXCEPT !.fTargetVolumes = Append(@, Len(c.lvs))]
             zC == zW + graphiteThickness
             scored == IF IsLast(i, nLayers)
                       THEN [cPushed EXCEPT !.fScoringVolume = Len(c.lvs)]
                       ELSE cPushed
         IN  AlternatingLayers(scored, i + 1, zC, tungsten, graphite)

\* ConstructAlternatingLayers: world, then nLayers pairs (tungsten, graphite),
\* both registered, the last graphite layer the scoring volume, the sensitive
\* detector, then the gas with its local field.  fDTZStart, fDTZCenter and fDTZEnd
\* are not assigned.
ConstructAlternatingLayers(g, available) ==
    LET tungsten == FindOrBuildMaterial(available, "G4_W")
        graphite == FindOrBuildMaterial(available, "G4_GRAPHITE")
        air == FindOrBuildMaterial(available, "G4_AIR")
        world == NewVolume(g, "WorldLV", air, "World", 0, 30 * cm)
        zPos == (-nLayers * (tungstenThickness + graphiteThickness)) \div 2
        layers == AlternatingLayers(world, 0, zPos, tungsten, graphite)
        sd == AttachSensitiveDetector(layers.g)
        DT_zPos == layers.zPos + DT_thickness \div 2
    IN  [GasRegion(sd, DT_zPos) EXCEPT !.world = Len(world.pvs)]

ConverterZPacked(startZ, i) == startZ + i * (converterThickness - 1 * mm)

\* zPos = startZ + i * (converterThickness + 1.0 * mm)
ConverterZ(startZ, i) == startZ + i * (converterThickness + 1 * mm)

RECURSIVE Converters(_, _, _, _)
Converters(g, i, tungsten, startZ) ==
    IF i >= numConverters THEN g
    ELSE LET placed == NewVolume(g, ConverterLVName(i), tungsten, ConverterName(i),
                                 ConverterZ(startZ, i), converterThickness)
             pushed == [placed EXCEPT !.fTargetVolumes = Append(@, Len(placed.lvs))]
         IN  Converters(pushed, i + 1, tungsten, startZ)

\* fDTZCenter = DT_zPos; fDTZStart = DT_zPos - DT_thickness / 2.0;
\* fDTZEnd = DT_zPos + DT_thickness / 2.0
GasBounds(DT_zPos) ==
    [start |-> DT_zPos - DT_thickness \div 2, center |-> DT_zPos,
     end |-> DT_zPos + DT_thickness \div 2]

RecordGasBounds(g, DT_zPos) ==
    [g EXCEPT !.fDTZCenter = GasBounds(DT_zPos).center,
              !.fDTZStart = GasBounds(DT_zPos).start,
              !.fDTZEnd = GasBounds(DT_zPos).end]

\* ConstructStackedTargetGeometry: world, the graphite proton target (the scoring
\* volume, not registered), numConverters tungsten converters (registered), the
\* sensitive detector, the recorded bounds of the gas, the gas with its local field.
ConstructStackedTargetGeometry(g, available) ==
    LET air == FindOrBuildMaterial(available, "G4_AIR")
        graphite == FindOrBuildMaterial(available, "G4_GRAPHITE")
        tungsten == FindOrBuildMaterial(available, "G4_W")
        world == NewVolume(g, "WorldLV", air, "World", 0, 50 * cm)
        target == NewVolume(world, "ProtonTargetLV", graphite, "ProtonTarget", targetZ,
                            targetThickness)
        scored == [target EXCEPT !.fScoringVolume = Len(target.lvs)]
        startZ == targetZ + targetThickness + 1 * mm
        convs == Converters(scored, 0, tungsten, startZ)
        sd == AttachSensitiveDetector(convs)
        lastConverterZ == startZ + (numConverters - 1) * (converterThickness + 1 * mm)
        DT_zPos == lastConverterZ + converterThickness \div 2 + DT_thickness \div 2 + 1 * mm
    IN  [GasRegion(RecordGasBounds(sd, DT_zPos), DT_zPos) EXCEPT !.world = Len(world.pvs)]

\* the loop of ConstructOpenMuonTarget; its result is the detector and zPos
RECURSIVE OpenConverters(_, _, _, _)
OpenConverters(g, i, zPos, tungsten) ==
    IF i >= nThicknesses THEN [g |-> g, zPos |-> zPos]
    ELSE LET t == thicknesses[i + 1]
             zMid == zPos + t \div 2
             placed == NewVolume(g, ConverterLVName(i), tungsten, ConverterName(i), zMid, t)
             pushed == [placed EXCEPT !.fTargetVolumes = Append(@, Len(placed.lvs))]
         IN  OpenConverters(pushed, i + 1, zMid + t \div 2 + converterGap, tungsten)

\* ConstructOpenMuonTarget: as the stacked target, with the converters of
\* thicknesses, converterGap apart, and the gas 10 mm behind the last gap.
ConstructOpenMuonTarget(g, available) ==
    LET air == FindOrBuildMaterial(available, "G4_AIR")
        graphite == FindOrBuildMaterial(available, "G4_GRAPHITE")
        tungsten == FindOrBuildMaterial(available, "G4_W")
        world == NewVolume(g, "WorldLV", air, "World", 0, 60 * cm)
        target == NewVolume(world, "ProtonTargetLV", graphite, "ProtonTarget", targetZ,
                            targetThickness)
        scored == [target EXCEPT !.fScoringVolume = Len(target.lvs)]
        convs == OpenConverters(scored, 0, targetZ + targetThickness + 1 * mm, tungsten)
        DT_zPos == convs.zPos + 10 * mm + DT_thickness \div 2
        gas == GasRegion(RecordGasBounds(convs.g, DT_zPos), DT_zPos)
    IN  [AttachSensitiveDetector(gas) EXCEPT !.world = Len(world.pvs)]

AnyType(type) == TRUE

KnownType(type) ==
    type \in {"muonTarget", "openMuonTarget", "carbonStack", "alternatingLayers"}

\* DetectorConstruction::Construct for a supported type.
ConstructGeometry(type, g, available) ==
    IF type = "muonTarget" THEN ConstructStackedTargetGeometry(g, available)
    ELSE IF type = "openMuonTarget" THEN ConstructOpenMuonTarget(g, available)
    ELSE IF type = "carbonStack" THEN ConstructCarbonStack(g, available)
    ELSE ConstructAlternatingLayers(g, available)

DetectorCleared ==
    [lvs |-> lvs, pvs |-> pvs, fTargetVolumes |-> << >>, fTargetPlacements |-> << >>,
     fScoringVolume |-> fScoringVolume, fDTZStart |-> fDTZStart,
     fDTZCenter |-> fDTZCenter, fDTZEnd |-> fDTZEnd,
     sensitiveVolumes |-> sensitiveVolumes, globalField |-> globalField,
     localFieldVolumes |-> localFieldVolumes, world |-> 0, fatal |-> FALSE,
     undefined |-> FALSE]

\* the detector as Construct finds it; fatal: a fatal G4Exception was raised;
\* undefined: the build has read past the end of a vector
Detector ==
    [lvs |-> lvs, pvs |-> pvs, fTargetVolumes |-> fTargetVolumes,
     fTargetPlacements |-> fTargetPlacements, fScoringVolume |-> fScoringVolume,
     fDTZStart |-> fDTZStart, fDTZCenter |-> fDTZCenter, fDTZEnd |-> fDTZEnd,
     sensitiveVolumes |-> sensitiveVolumes, globalField |-> globalField,
     localFieldVolumes |-> localFieldVolumes, world |-> 0, fatal |-> FALSE,
     undefined |-> FALSE]

GetNumTargetVolumes == Len(fTargetVolumes)

\* GetTargetNVolume(n), n counted from 0; 0 is nullptr
GetTargetNVolume(n) == IF n < Len(fTargetVolumes) THEN fTargetVolumes[n + 1] ELSE 0

(***************************************************************************)
(* SteppingAction: the scan that maps a volume to its registry index       *)
(***************************************************************************)
RECURSIVE ScanByName(_, _)
ScanByName(vol, i) ==
    IF i >= GetNumTargetVolumes THEN -1
    ELSE IF lvs[vol].name = lvs[GetTargetNVolume(i)].name THEN i
    ELSE ScanByName(vol, i + 1)

RECURSIVE ScanFrom(_, _)
ScanFrom(vol, i) ==
    IF i >= GetNumTargetVolumes THEN -1
    ELSE IF vol = GetTargetNVolume(i) THEN i
    ELSE ScanFrom(vol, i + 1)

TargetIndexByName(vol) == ScanByName(vol, 0)

TargetIndexSkipFirst(vol) == ScanFrom(vol, 1)

\* int targetIndex = -1; for (i = 0; i < numTargets; ++i) if (vol == targetVol) ...
TargetIndex(vol) == ScanFrom(vol, 0)

(***************************************************************************)
(* G4AnalysisManager: the H1 histograms                                    *)
(***************************************************************************)
\* A histogram: its shape and the values filled into it, in the order of the fills
\* (each fill adds one entry, whichever bin, underflow or overflow it falls into).
H1(name, nbins, xmin, xmax) ==
    [name |-> name, nbins |-> nbins, xmin |-> xmin, xmax |-> xmax, entries |-> << >>]

\* CreateH1 gives the new histogram the next free id, counted from 0.
CreateH1(h, name, nbins, xmin, xmax) == Append(h, H1(name, nbins, xmin, xmax))

\* FillH1(id, value): a fill of an id that was never created is refused with a
\* warning and changes nothing.
FillH1(h, id, value) ==
    IF id + 1 \in DOMAIN h THEN [h EXCEPT ![id + 1].entries = Append(@, value)]
    ELSE h

Total(id) == IF id + 1 \in DOMAIN h1 THEN Len(h1[id + 1].entries) ELSE 0

(***************************************************************************)
(* RunAction                                                               *)
(***************************************************************************)
BeginOfRunNineBins(h) ==
    CreateH1(CreateH1(CreateH1(CreateH1(h,
        "MuonEnergy", 100, 0, 200),
        "MuonStopZ", 100, -150, 150),
        "MuonStopTarget", 9, 0, 9),
        "MuonStopRadius", 100, 0, 50)

\* BeginOfRunAction: the histograms it creates, in this order.  In the first run
\* they get the ids 0..3; in a later run the next four free ids.
BeginOfRunHistograms(h) ==
    CreateH1(CreateH1(CreateH1(CreateH1(h,
        "MuonEnergy", 100, 0, 200),
        "MuonStopZ", 100, -150, 150),
        "MuonStopTarget", 10, 0, 10),
        "MuonStopRadius", 100, 0, 50)

\* CloseFile(true) would reset every histogram
EndOfRunReset(h) == [k \in DOMAIN h |-> [h[k] EXCEPT !.entries = << >>]]

\* EndOfRunAction: Write(), then CloseFile(false), which keeps the histograms.
EndOfRunHistograms(h) == h

\* The runs begun in the session: each BeginOfRunAction makes its four histograms,
\* and none is ever deleted.
RunsBegun(h) == Len(h) \div 4

(***************************************************************************)
(* EventAction                                                             *)
(***************************************************************************)
NoReset == fKeepThisEvent

\* BeginOfEventAction: the value it gives fKeepThisEvent
BeginOfEventFlag == FALSE

SetKeepEventToggle(keep) == ~fKeepThisEvent

\* SetKeepEvent(keep): the value it gives fKeepThisEvent
SetKeepEvent(keep) == keep

\* EndOfEventAction: whether it calls KeepTheCurrentEvent()
EndOfEventKeeps == fKeepThisEvent

(***************************************************************************)
(* SteppingAction::UserSteppingAction                                      *)
(***************************************************************************)
Sqrt(n) == CHOOSE r \in 0..n : r * r = n

IsTrackedOrProton(name) == name \in {"mu+", "mu-", "proton"}

\* "if (name != "mu+" && name != "mu-") return;"
IsTracked(name) == ~(name /= "mu+" /\ name /= "mu-")

\* whether the record makes the step action call SetKeepEvent(true): the cast of
\* the registered event action to EventAction must succeed
SignalsWhenCreated(name, stepNo) ==
    IsTracked(name) /\ stepNo = 1 /\ userEventAction = "EventAction"

Signals(name, stepNo) == IsTracked(name) /\ userEventAction = "EventAction"

FillCreationAlways(h, stepNo, energy) == FillH1(h, 0, energy)

\* Case 1: the track was just created
FillCreation(h, stepNo, energy) ==
    IF stepNo = 1 THEN FillH1(h, 0, energy) ELSE h

RadiusSum(pos) == pos[1] + pos[2]

\* r = sqrt(x*x + y*y)
Radius(pos) == Sqrt(pos[1] * pos[1] + pos[2] * pos[2])

FillStopAlwaysIndex(h, status, pos, vol) ==
    IF status = "fStopAndKill"
    THEN LET r == Radius(pos)
             zStop == pos[3]
             ht == FillH1(FillH1(FillH1(h, 3, r), 1, zStop), 2, TargetIndex(vol))
         IN  IF lvs[vol].name = "DTGasLogical"
             THEN FillH1(FillH1(ht, 4, zStop), 5, r)
             ELSE ht
    ELSE h

\* Case 2: the track status is fStopAndKill
FillStop(h, status, pos, vol) ==
    IF status = "fStopAndKill"
    THEN LET r == Radius(pos)
             zStop == pos[3]
             hr == FillH1(h, 3, r)
             hz == FillH1(hr, 1, zStop)
             targetIndex == TargetIndex(vol)
             ht == IF targetIndex >= 0 THEN FillH1(hz, 2, targetIndex) ELSE hz
         IN  IF lvs[vol].name = "DTGasLogical"
             THEN FillH1(FillH1(ht, 4, zStop), 5, r)
             ELSE ht
    ELSE h

SteppingHistogramsExclusive(h, name, stepNo, status, energy, pos, vol) ==
    IF ~IsTracked(name) THEN h
    ELSE IF stepNo = 1 THEN FillCreation(h, stepNo, energy)
    ELSE FillStop(h, status, pos, vol)

\* the histograms after the callback for one step record
SteppingHistograms(h, name, stepNo, status, energy, pos, vol) ==
    IF ~IsTracked(name) THEN h
    ELSE FillStop(FillCreation(h, stepNo, energy), status, pos, vol)

(***************************************************************************)
(* TrackingAction and the histogram RunAction keeps for it                 *)
(***************************************************************************)
\* "TH1D *fMuonStoppingHist = nullptr;": no constructor and no hook assigns it
NullHistogram == [null |-> TRUE, entries |-> << >>]

\* GetMuonStoppingHistogram()
GetMuonStoppingHistogram == fMuonStoppingHist

\* PostUserTrackingAction: "if (name == "mu+" || name == "mu-") { ... if (runAction &&
\* runAction->GetMuonStoppingHistogram()) ...->Fill(z / mm); }"
TrackEndHistogram(hist, name, z) ==
    IF (name = "mu+" \/ name = "mu-") /\ ~hist.null
    THEN [hist EXCEPT !.entries = Append(@, z)]
    ELSE hist

(***************************************************************************)
(* Hists/convert_histograms.C, the macro that plots the output file        *)
(***************************************************************************)
\* the histograms an output file may hold: the four of RunAction and the two of
\* the gas region
HistogramsInFile ==
    {"MuonEnergy", "MuonStopZ", "MuonStopTarget", "MuonStopRadius", "stopZGas",
     "stopRadiusGas"}

NoRootFile == [opens |-> FALSE, names |-> {}]

RootFiles == {NoRootFile} \cup [opens : {TRUE}, names : SUBSET HistogramsInFile]

histNamesSix ==
    << "MuonEnergy", "MuonStopZ", "MuonStopTarget", "MuonStopRadius", "stopZGas",
       "stopRadiusGas" >>

histNames == << "MuonEnergy", "MuonStopZ", "MuonStopTarget", "MuonStopRadius" >>

\* name + ".pdf"
PdfName(name) ==
    CASE name = "MuonEnergy" -> "MuonEnergy.pdf"
      [] name = "MuonStopZ" -> "MuonStopZ.pdf"
      [] name = "MuonStopTarget" -> "MuonStopTarget.pdf"
      [] name = "MuonStopRadius" -> "MuonStopRadius.pdf"
      [] name = "stopZGas" -> "stopZGas.pdf"
      [] name = "stopRadiusGas" -> "stopRadiusGas.pdf"

\* "TFile *f = TFile::Open(...); if (!f || f->IsZombie()) { ...; return; }"
OpenRootFile ==
    /\ pc = "macro"
    /\ pc' = IF rootFile.opens THEN "loop" ELSE "openFailed"
    /\ UNCHANGED << fDetectorType, lvs, fTargetVolumes, fScoringVolume, userEventAction,
                    fKeepThisEvent, keepTheEvent, h1, track, primaryDone, nSteps,
                    nSignals, sawCreation, nTargetStops, nUnresolvedStops, delivered,
                    pvs, fTargetPlacements, fDTZStart, fDTZCenter, fDTZEnd,
                    sensitiveVolumes, globalField, localFieldVolumes, worldVolume,
                    nistMaterials, fMuonStoppingHist, built, rootFile, histIndex, plots,
                    notFound, nViolations >>

\* one turn of "for (const auto &name : histNames)"
ConvertHistogram ==
    /\ pc = "loop"
    /\ histIndex < Len(histNames)
    /\ LET name == histNames[histIndex + 1]
       IN  IF name \notin rootFile.names
           THEN /\ notFound' = Append(notFound, name)
                /\ plots' = plots
           ELSE /\ plots' = Append(plots, PdfName(name))
                /\ notFound' = notFound
    /\ histIndex' = histIndex + 1
    /\ UNCHANGED << pc, fDetectorType, lvs, fTargetVolumes, fScoringVolume,
                    userEventAction, fKeepThisEvent, keepTheEvent, h1, track,
                    primaryDone, nSteps, nSignals, sawCreation, nTargetStops,
                    nUnresolvedStops, delivered, pvs, fTargetPlacements, fDTZStart,
                    fDTZCenter, fDTZEnd, sensitiveVolumes, globalField,
                    localFieldVolumes, worldVolume, nistMaterials, fMuonStoppingHist,
                    built, rootFile, nViolations >>

\* the end of the loop: "f->Close();"
CloseRootFile ==
    /\ pc = "loop"
    /\ histIndex = Len(histNames)
    /\ pc' = "closed"
    /\ UNCHANGED << fDetectorType, lvs, fTargetVolumes, fScoringVolume, userEventAction,
                    fKeepThisEvent, keepTheEvent, h1, track, primaryDone, nSteps,
                    nSignals, sawCreation, nTargetStops, nUnresolvedStops, delivered,
                    pvs, fTargetPlacements, fDTZStart, fDTZCenter, fDTZEnd,
                    sensitiveVolumes, globalField, localFieldVolumes, worldVolume,
                    nistMaterials, fMuonStoppingHist, built, rootFile, histIndex, plots,
                    notFound, nViolations >>

(***************************************************************************)
(* The state after the constructors                                        *)
(***************************************************************************)
Init ==
    /\ pc = "start"
    /\ fDetectorType = "carbonStack"
    /\ lvs = << >>
    /\ fTargetVolumes = << >>
    /\ fScoringVolume = 0
    /\ pvs = << >>
    /\ fTargetPlacements = << >>
    /\ fDTZStart = 0
    /\ fDTZCenter = 0
    /\ fDTZEnd = 0
    /\ sensitiveVolumes = {}
    /\ globalField = FALSE
    /\ localFieldVolumes = {}
    /\ worldVolume = 0
    /\ nistMaterials = BaseMaterials
    /\ userEventAction = "null"
    /\ fKeepThisEvent = FALSE
    /\ keepTheEvent = FALSE
    /\ h1 = << >>
    /\ track = NoTrack
    /\ primaryDone = FALSE
    /\ nSteps = 0
    /\ nSignals = 0
    /\ sawCreation = FALSE
    /\ nTargetStops = 0
    /\ nUnresolvedStops = 0
    /\ delivered = [energy |-> << >>, z |-> << >>, radius |-> << >>, index |-> << >>]
    /\ nViolations = 0
    /\ rootFile = NoRootFile
    /\ histIndex = 0
    /\ plots = << >>
    /\ notFound = << >>
    /\ built = << >>
    /\ fMuonStoppingHist = NullHistogram

\* main.cc: the detector type is set to "muonTarget"; the actions registered are
\* PrimaryGeneratorAction, RunAction, SteppingAction and TrackingAction.
InitMain ==
    /\ pc = "start"
    /\ fDetectorType = "muonTarget"
    /\ lvs = << >>
    /\ fTargetVolumes = << >>
    /\ fScoringVolume = 0
    /\ pvs = << >>
    /\ fTargetPlacements = << >>
    /\ fDTZStart = 0
    /\ fDTZCenter = 0
    /\ fDTZEnd = 0
    /\ sensitiveVolumes = {}
    /\ globalField = FALSE
    /\ localFieldVolumes = {}
    /\ worldVolume = 0
    /\ nistMaterials = BaseMaterials
    /\ userEventAction = "null"
    /\ fKeepThisEvent = FALSE
    /\ keepTheEvent = FALSE
    /\ h1 = << >>
    /\ track = NoTrack
    /\ primaryDone = FALSE
    /\ nSteps = 0
    /\ nSignals = 0
    /\ sawCreation = FALSE
    /\ nTargetStops = 0
    /\ nUnresolvedStops = 0
    /\ delivered = [energy |-> << >>, z |-> << >>, radius |-> << >>, index |-> << >>]
    /\ nViolations = 0
    /\ rootFile = NoRootFile
    /\ histIndex = 0
    /\ plots = << >>
    /\ notFound = << >>
    /\ built = << >>
    /\ fMuonStoppingHist = NullHistogram

(***************************************************************************)
(* Assembly                                                                *)
(***************************************************************************)
SetDetectorType(type) ==
    /\ pc = "start"
    /\ fDetectorType' = type
    /\ UNCHANGED << pc, lvs, fTargetVolumes, fScoringVolume, userEventAction,
                    fKeepThisEvent, keepTheEvent, h1, track, primaryDone, nSteps,
                    nSignals, sawCreation, nTargetStops, nUnresolvedStops, delivered,
                    pvs, fTargetPlacements, fDTZStart, fDTZCenter, fDTZEnd,
                    sensitiveVolumes, globalField, localFieldVolumes, worldVolume,
                    nistMaterials, fMuonStoppingHist, built, rootFile, histIndex, plots,
                    notFound, nViolations >>

\* runManager->SetUserAction(new EventAction())
SetUserEventAction ==
    /\ pc = "start"
    /\ userEventAction = "null"
    /\ userEventAction' = "EventAction"
    /\ UNCHANGED << pc, fDetectorType, lvs, fTargetVolumes, fScoringVolume,
                    fKeepThisEvent, keepTheEvent, h1, track, primaryDone, nSteps,
                    nSignals, sawCreation, nTargetStops, nUnresolvedStops, delivered,
                    pvs, fTargetPlacements, fDTZStart, fDTZCenter, fDTZEnd,
                    sensitiveVolumes, globalField, localFieldVolumes, worldVolume,
                    nistMaterials, fMuonStoppingHist, built, rootFile, histIndex, plots,
                    notFound, nViolations >>

(***************************************************************************)
(* The hooks, in the kernel's order                                        *)
(***************************************************************************)
\* DetectorConstruction::Construct.  An unknown type is a fatal G4Exception, and a
\* fatal G4Exception ends the program.  A read past the end of fTargetPlacements
\* is undefined: the program goes on with what it read, or it crashes.
ConstructCall ==
    /\ LET b == IF KnownType(fDetectorType)
                THEN ConstructGeometry(fDetectorType, Detector, nistMaterials)
                ELSE [Detector EXCEPT !.fatal = TRUE]
       IN  /\ lvs' = b.lvs
           /\ pvs' = b.pvs
           /\ fTargetVolumes' = b.fTargetVolumes
           /\ fTargetPlacements' = b.fTargetPlacements
           /\ fScoringVolume' = b.fScoringVolume
           /\ fDTZStart' = b.fDTZStart
           /\ fDTZCenter' = b.fDTZCenter
           /\ fDTZEnd' = b.fDTZEnd
           /\ sensitiveVolumes' = b.sensitiveVolumes
           /\ globalField' = b.globalField
           /\ localFieldVolumes' = b.localFieldVolumes
           /\ worldVolume' = IF b.fatal THEN worldVolume ELSE b.world
           /\ built' = IF b.fatal THEN built ELSE Append(built, fDetectorType)
           /\ pc' \in IF b.fatal THEN {"aborted"}
                      ELSE IF b.undefined THEN {"geometry", "crashed"}
                      ELSE {"geometry"}
    /\ UNCHANGED << fDetectorType, userEventAction, fKeepThisEvent, keepTheEvent, h1,
                    track, primaryDone, nSteps, nSignals, sawCreation, nTargetStops,
                    nUnresolvedStops, delivered, nistMaterials, fMuonStoppingHist,
                    rootFile, histIndex, plots, notFound, nViolations >>

\* the kernel's call of Construct, at initialisation
Construct ==
    /\ pc = "start"
    /\ ConstructCall

\* a further call of SetDetectorType on the same DetectorConstruction
SetDetectorTypeAfterBuild(type) ==
    /\ pc = "geometry"
    /\ Len(built) < MaxBuilds
    /\ fDetectorType' = type
    /\ UNCHANGED << pc, lvs, fTargetVolumes, fScoringVolume, userEventAction,
                    fKeepThisEvent, keepTheEvent, h1, track, primaryDone, nSteps,
                    nSignals, sawCreation, nTargetStops, nUnresolvedStops, delivered,
                    pvs, fTargetPlacements, fDTZStart, fDTZCenter, fDTZEnd,
                    sensitiveVolumes, globalField, localFieldVolumes, worldVolume,
                    nistMaterials, fMuonStoppingHist, built, rootFile, histIndex, plots,
                    notFound, nViolations >>

\* a further call of Construct on the same DetectorConstruction
ConstructAgain ==
    /\ pc = "geometry"
    /\ Len(built) < MaxBuilds
    /\ ConstructCall

BeginOfRunAction ==
    /\ pc \in {"geometry", "done"}
    /\ RunsBegun(h1) < MaxRuns
    /\ h1' = BeginOfRunHistograms(h1)
    /\ pc' = "idle"
    /\ UNCHANGED << fDetectorType, lvs, fTargetVolumes, fScoringVolume, userEventAction,
                    fKeepThisEvent, keepTheEvent, track, primaryDone, nSteps, nSignals,
                    sawCreation, nTargetStops, nUnresolvedStops, delivered, pvs,
                    fTargetPlacements, fDTZStart, fDTZCenter, fDTZEnd, sensitiveVolumes,
                    globalField, localFieldVolumes, worldVolume, nistMaterials,
                    fMuonStoppingHist, built, rootFile, histIndex, plots, notFound,
                    nViolations >>

\* The kernel makes a new event and calls the registered event action, if any.
BeginOfEventAction ==
    /\ pc \in {"idle", "eventEnd"}
    /\ nSteps < MaxSteps
    /\ pc' = "event"
    /\ keepTheEvent' = FALSE
    /\ nSignals' = 0
    /\ sawCreation' = FALSE
    /\ fKeepThisEvent' = IF userEventAction = "EventAction" THEN BeginOfEventFlag
                         ELSE fKeepThisEvent
    /\ primaryDone' = FALSE
    /\ UNCHANGED << fDetectorType, lvs, fTargetVolumes, fScoringVolume, userEventAction,
                    h1, track, nSteps, nTargetStops, nUnresolvedStops, delivered, pvs,
                    fTargetPlacements, fDTZStart, fDTZCenter, fDTZEnd, sensitiveVolumes,
                    globalField, localFieldVolumes, worldVolume, nistMaterials,
                    fMuonStoppingHist, built, rootFile, histIndex, plots, notFound,
                    nViolations >>

\* The kernel takes the next track, the primary first, and calls
\* TrackingAction::PreUserTrackingAction, which prints a record for a muon.
PreUserTrackingAction(name) ==
    /\ pc = "event"
    /\ nSteps < MaxSteps
    /\ name = IF primaryDone THEN name ELSE Primary
    /\ primaryDone' = TRUE
    /\ pc' = "track"
    /\ track' = [particle |-> name, stepNo |-> 0, status |-> "fAlive"]
    /\ UNCHANGED << fDetectorType, lvs, fTargetVolumes, fScoringVolume, userEventAction,
                    fKeepThisEvent, keepTheEvent, h1, nSteps, nSignals, sawCreation,
                    nTargetStops, nUnresolvedStops, delivered, pvs, fTargetPlacements,
                    fDTZStart, fDTZCenter, fDTZEnd, sensitiveVolumes, globalField,
                    localFieldVolumes, worldVolume, nistMaterials, fMuonStoppingHist,
                    built, rootFile, histIndex, plots, notFound, nViolations >>

\* One step of the current track: the kernel has advanced the step number and set
\* the status, the kinetic energy, the position and the pre-step volume.
UserSteppingAction(status, energy, pos, vol) ==
    /\ pc = "track"
    /\ track.status = "fAlive"
    /\ nSteps < MaxSteps
    /\ LET name == track.particle
           stepNo == track.stepNo + 1
           muon == name \in {"mu+", "mu-"}
           registered == \E k \in 1..Len(fTargetVolumes) : fTargetVolumes[k] = vol
       IN  /\ track' = [track EXCEPT !.stepNo = stepNo, !.status = status]
           /\ fKeepThisEvent' = IF Signals(name, stepNo) THEN SetKeepEvent(TRUE)
                                ELSE fKeepThisEvent
           /\ nSignals' = IF Signals(name, stepNo) THEN nSignals + 1 ELSE nSignals
           /\ h1' = SteppingHistograms(h1, name, stepNo, status, energy, pos, vol)
           /\ sawCreation' = (sawCreation \/ (muon /\ stepNo = 1))
           /\ nTargetStops' =
                IF muon /\ status = "fStopAndKill" /\ registered
                THEN nTargetStops + 1 ELSE nTargetStops
           /\ nUnresolvedStops' =
                IF muon /\ status = "fStopAndKill" /\ ~registered
                THEN nUnresolvedStops + 1 ELSE nUnresolvedStops
           /\ delivered' =
                [energy |-> IF muon /\ stepNo = 1 THEN Append(delivered.energy, energy)
                            ELSE delivered.energy,
                 z      |-> IF muon /\ status = "fStopAndKill"
                            THEN Append(delivered.z, pos[3]) ELSE delivered.z,
                 radius |-> IF muon /\ status = "fStopAndKill"
                            THEN Append(delivered.radius,
                                        CHOOSE r \in 0..(pos[1] + pos[2]) :
                                            r * r = pos[1] * pos[1] + pos[2] * pos[2])
                            ELSE delivered.radius,
                 index  |-> IF muon /\ status = "fStopAndKill" /\ registered
                            THEN Append(delivered.index,
                                        (CHOOSE k \in 1..Len(fTargetVolumes) :
                                            fTargetVolumes[k] = vol) - 1)
                            ELSE delivered.index]
    /\ nSteps' = nSteps + 1
    /\ UNCHANGED << pc, fDetectorType, lvs, fTargetVolumes, fScoringVolume,
                    userEventAction, keepTheEvent, primaryDone, pvs, fTargetPlacements,
                    fDTZStart, fDTZCenter, fDTZEnd, sensitiveVolumes, globalField,
                    localFieldVolumes, worldVolume, nistMaterials, fMuonStoppingHist,
                    built, rootFile, histIndex, plots, notFound, nViolations >>

\* TrackingAction::PostUserTrackingAction at the stop position pos: prints a
\* record for a muon and fills the histogram of the run action, if there is one.
PostUserTrackingAction ==
    /\ pc = "track"
    /\ track.status = "fStopAndKill"
    /\ pc' = "event"
    /\ track' = NoTrack
    /\ \E pos \in Positions :
          fMuonStoppingHist' = TrackEndHistogram(GetMuonStoppingHistogram, track.particle,
                                                 pos[3])
    /\ UNCHANGED << fDetectorType, lvs, fTargetVolumes, fScoringVolume, userEventAction,
                    fKeepThisEvent, keepTheEvent, h1, primaryDone, nSteps, nSignals,
                    sawCreation, nTargetStops, nUnresolvedStops, delivered, pvs,
                    fTargetPlacements, fDTZStart, fDTZCenter, fDTZEnd, sensitiveVolumes,
                    globalField, localFieldVolumes, worldVolume, nistMaterials, built,
                    rootFile, histIndex, plots, notFound, nViolations >>

\* The kernel ends the event, after at least one track, and calls the registered
\* event action, if any.
EndOfEventAction ==
    /\ pc = "event"
    /\ primaryDone
    /\ pc' = "eventEnd"
    /\ keepTheEvent' = IF userEventAction = "EventAction" /\ EndOfEventKeeps THEN TRUE
                       ELSE keepTheEvent
    /\ UNCHANGED << fDetectorType, lvs, fTargetVolumes, fScoringVolume, userEventAction,
                    fKeepThisEvent, h1, track, primaryDone, nSteps, nSignals,
                    sawCreation, nTargetStops, nUnresolvedStops, delivered, pvs,
                    fTargetPlacements, fDTZStart, fDTZCenter, fDTZEnd, sensitiveVolumes,
                    globalField, localFieldVolumes, worldVolume, nistMaterials,
                    fMuonStoppingHist, built, rootFile, histIndex, plots, notFound,
                    nViolations >>

EndOfRunAction ==
    /\ pc \in {"idle", "eventEnd"}
    /\ pc' = "done"
    /\ h1' = EndOfRunHistograms(h1)
    /\ UNCHANGED << fDetectorType, lvs, fTargetVolumes, fScoringVolume, userEventAction,
                    fKeepThisEvent, keepTheEvent, track, primaryDone, nSteps, nSignals,
                    sawCreation, nTargetStops, nUnresolvedStops, delivered, pvs,
                    fTargetPlacements, fDTZStart, fDTZCenter, fDTZEnd, sensitiveVolumes,
                    globalField, localFieldVolumes, worldVolume, nistMaterials,
                    fMuonStoppingHist, built, rootFile, histIndex, plots, notFound,
                    nViolations >>

Hooks ==
    \/ Construct
    \/ BeginOfRunAction
    \/ BeginOfEventAction
    \/ \E name \in Particles : PreUserTrackingAction(name)
    \/ \E status \in TrackStatuses, rec \in StepRecords, vol \in 1..Len(lvs) :
          UserSteppingAction(status, rec.energy, rec.pos, vol)
    \/ PostUserTrackingAction
    \/ EndOfEventAction
    \/ EndOfRunAction

\* Any assembly of the classes: any detector type, the event action registered or not.
Next ==
    \/ \E type \in DetectorTypes : SetDetectorType(type)
    \/ SetUserEventAction
    \/ Hooks

Spec == Init /\ [][Next]_vars

\* The program as main.cc assembles it.
NextMain == Hooks

SpecMain == InitMain /\ [][NextMain]_vars

(***************************************************************************)
(* The callbacks under an engine that does not keep the documented order.  *)
(* The handlers are the same code: EventAction and SteppingAction hold no  *)
(* record of the run or of the event they are in, and test none.           *)
(***************************************************************************)
StepNumbers == {1, 2}

\* SteppingAction::UserSteppingAction invoked before BeginOfRunAction (before the
\* first run or between two runs), or before the BeginOfEventAction of the event the
\* step belongs to.
StepOutOfOrder(name, stepNo, status, energy, pos, vol) ==
    /\ pc \in {"geometry", "idle", "eventEnd", "done"}
    /\ nViolations < MaxViolations
    /\ nViolations' = nViolations + 1
    /\ fKeepThisEvent' = IF Signals(name, stepNo) THEN SetKeepEvent(TRUE)
                         ELSE fKeepThisEvent
    /\ h1' = SteppingHistograms(h1, name, stepNo, status, energy, pos, vol)
    /\ UNCHANGED << pc, fDetectorType, lvs, fTargetVolumes, fScoringVolume,
                    userEventAction, keepTheEvent, track, primaryDone, nSteps, nSignals,
                    sawCreation, nTargetStops, nUnresolvedStops, delivered, pvs,
                    fTargetPlacements, fDTZStart, fDTZCenter, fDTZEnd, sensitiveVolumes,
                    globalField, localFieldVolumes, worldVolume, nistMaterials,
                    fMuonStoppingHist, built, rootFile, histIndex, plots, notFound >>

\* EventAction::BeginOfEventAction invoked a second time within an event.
ResetAgain ==
    /\ pc \in {"event", "track"}
    /\ userEventAction = "EventAction"
    /\ nViolations < MaxViolations
    /\ nViolations' = nViolations + 1
    /\ fKeepThisEvent' = BeginOfEventFlag
    /\ UNCHANGED << pc, fDetectorType, lvs, fTargetVolumes, fScoringVolume,
                    userEventAction, keepTheEvent, h1, track, primaryDone, nSteps,
                    nSignals, sawCreation, nTargetStops, nUnresolvedStops, delivered,
                    pvs, fTargetPlacements, fDTZStart, fDTZCenter, fDTZEnd,
                    sensitiveVolumes, globalField, localFieldVolumes, worldVolume,
                    nistMaterials, fMuonStoppingHist, built, rootFile, histIndex, plots,
                    notFound >>

\* EventAction::EndOfEventAction invoked with no BeginOfEventAction before it:
\* before or between the runs, between events, or a second time at the end of an
\* event.
EventEndBeforeReset ==
    /\ pc \in {"geometry", "idle", "eventEnd", "done"}
    /\ userEventAction = "EventAction"
    /\ nViolations < MaxViolations
    /\ nViolations' = nViolations + 1
    /\ keepTheEvent' = IF EndOfEventKeeps THEN TRUE ELSE keepTheEvent
    /\ UNCHANGED << pc, fDetectorType, lvs, fTargetVolumes, fScoringVolume,
                    userEventAction, fKeepThisEvent, h1, track, primaryDone, nSteps,
                    nSignals, sawCreation, nTargetStops, nUnresolvedStops, delivered,
                    pvs, fTargetPlacements, fDTZStart, fDTZCenter, fDTZEnd,
                    sensitiveVolumes, globalField, localFieldVolumes, worldVolume,
                    nistMaterials, fMuonStoppingHist, built, rootFile, histIndex, plots,
                    notFound >>

NextMisuse ==
    \/ SetUserEventAction
    \/ Hooks
    \/ \E name \in Particles, stepNo \in StepNumbers, status \in TrackStatuses,
          rec \in StepRecords, vol \in 1..Len(lvs) :
          StepOutOfOrder(name, stepNo, status, rec.energy, rec.pos, vol)
    \/ ResetAgain
    \/ EventEndBeforeReset

SpecMisuse == Init /\ [][NextMisuse]_vars

\* The construction phase of any assembly, whatever base materials G4NistManager
\* can find or build.
InitConstruction ==
    /\ pc = "start"
    /\ fDetectorType = "carbonStack"
    /\ lvs = << >>
    /\ fTargetVolumes = << >>
    /\ fScoringVolume = 0
    /\ pvs = << >>
    /\ fTargetPlacements = << >>
    /\ fDTZStart = 0
    /\ fDTZCenter = 0
    /\ fDTZEnd = 0
    /\ sensitiveVolumes = {}
    /\ globalField = FALSE
    /\ localFieldVolumes = {}
    /\ worldVolume = 0
    /\ nistMaterials \in SUBSET BaseMaterials
    /\ userEventAction = "null"
    /\ fKeepThisEvent = FALSE
    /\ keepTheEvent = FALSE
    /\ h1 = << >>
    /\ track = NoTrack
    /\ primaryDone = FALSE
    /\ nSteps = 0
    /\ nSignals = 0
    /\ sawCreation = FALSE
    /\ nTargetStops = 0
    /\ nUnresolvedStops = 0
    /\ delivered = [energy |-> << >>, z |-> << >>, radius |-> << >>, index |-> << >>]
    /\ nViolations = 0
    /\ rootFile = NoRootFile
    /\ histIndex = 0
    /\ plots = << >>
    /\ notFound = << >>
    /\ built = << >>
    /\ fMuonStoppingHist = NullHistogram

NextConstruction ==
    \/ \E type \in DetectorTypes : SetDetectorType(type)
    \/ SetUserEventAction
    \/ Construct

SpecConstruction == InitConstruction /\ [][NextConstruction]_vars

\* Any sequence of SetDetectorType and Construct calls on one DetectorConstruction.
NextRebuild ==
    \/ \E type \in DetectorTypes : SetDetectorType(type)
    \/ Construct
    \/ \E type \in DetectorTypes : SetDetectorTypeAfterBuild(type)
    \/ ConstructAgain

SpecRebuild == Init /\ [][NextRebuild]_vars

\* One execution of the macro convert_histograms, on any output file.
InitConvert ==
    /\ pc = "macro"
    /\ fDetectorType = "carbonStack"
    /\ lvs = << >>
    /\ fTargetVolumes = << >>
    /\ fScoringVolume = 0
    /\ pvs = << >>
    /\ fTargetPlacements = << >>
    /\ fDTZStart = 0
    /\ fDTZCenter = 0
    /\ fDTZEnd = 0
    /\ sensitiveVolumes = {}
    /\ globalField = FALSE
    /\ localFieldVolumes = {}
    /\ worldVolume = 0
    /\ nistMaterials = BaseMaterials
    /\ userEventAction = "null"
    /\ fKeepThisEvent = FALSE
    /\ keepTheEvent = FALSE
    /\ h1 = << >>
    /\ track = NoTrack
    /\ primaryDone = FALSE
    /\ nSteps = 0
    /\ nSignals = 0
    /\ sawCreation = FALSE
    /\ nTargetStops = 0
    /\ nUnresolvedStops = 0
    /\ delivered = [energy |-> << >>, z |-> << >>, radius |-> << >>, index |-> << >>]
    /\ nViolations = 0
    /\ rootFile \in RootFiles
    /\ histIndex = 0
    /\ plots = << >>
    /\ notFound = << >>
    /\ built = << >>
    /\ fMuonStoppingHist = NullHistogram

NextConvert ==
    \/ OpenRootFile
    \/ ConvertHistogram
    \/ CloseRootFile

SpecConvert == InitConvert /\ [][NextConvert]_vars

(***************************************************************************)
(* Vocabulary of the properties                                            *)
(***************************************************************************)
Muon(name) == name \in {"mu+", "mu-"}

Registered(vol) == \E k \in 1..Len(fTargetVolumes) : fTargetVolumes[k] = vol

Entries(h, id) == IF id + 1 \in DOMAIN h THEN h[id + 1].entries ELSE << >>

InEvent == pc \in {"event", "track"}

RunBegun == pc \in {"idle", "event", "track", "eventEnd", "done"}

EventActionRegistered == userEventAction = "EventAction"

\* the transition is a step callback
IsStep == pc = "track" /\ nSteps' = nSteps + 1

Abs(x) == IF x < 0 THEN -x ELSE x

\* the placement of a logical volume
PlacementOf(vol) == CHOOSE k \in DOMAIN pvs : pvs[k].logical = vol

\* the placement is one of a layer: of any volume but the world and the gas
IsLayer(k) == lvs[pvs[k].logical].name \notin {"World", "WorldLV", "DTGasLogical"}

IsGas(k) == lvs[pvs[k].logical].name = "DTGasLogical"

\* the base materials a variant asks G4NistManager for
Required(type) ==
    IF type = "carbonStack" THEN {"G4_AIR", "G4_C"}
    ELSE {"G4_AIR", "G4_GRAPHITE", "G4_W"}

(***************************************************************************)
(* C1: within one event the flag of the event action is a one-way latch:   *)
(* it is unset after the reset as long as no signal came, set once one     *)
(* signal came and still set after any further signal, and no step between *)
(* the reset and the end of the event takes it from set back to unset.     *)
(***************************************************************************)
C1_Latch ==
    /\ []((InEvent \/ pc = "eventEnd") => (fKeepThisEvent <=> nSignals >= 1))
    /\ [][(InEvent /\ fKeepThisEvent) => fKeepThisEvent']_vars

C1_Witness == pc = "track" /\ nSignals >= 2 /\ fKeepThisEvent

(***************************************************************************)
(* C2: at the end of every event the kernel was asked to keep the event if *)
(* and only if a signal came after that event's reset; a flag set in an    *)
(* earlier event does not carry over, and an unset flag asks for nothing.  *)
(***************************************************************************)
C2_Decision ==
    pc = "eventEnd" =>
        /\ keepTheEvent <=> nSignals >= 1
        /\ keepTheEvent <=> fKeepThisEvent

\* an event without a signal ends unkept after an earlier event saw a muon created
C2_Witness ==
    /\ pc = "eventEnd"
    /\ EventActionRegistered
    /\ Total(0) >= 1
    /\ nSignals = 0
    /\ ~keepTheEvent

(***************************************************************************)
(* C3: in the program main assembles, every event in which a creation step *)
(* (step 1) of a tracked species was processed ends with the flag set and  *)
(* the kernel asked to keep the event.                                     *)
(***************************************************************************)
C3_MainRetains ==
    (pc = "eventEnd" /\ sawCreation) => (fKeepThisEvent /\ keepTheEvent)

(***************************************************************************)
(* C4, as claimed: the step action signals the event action only for a     *)
(* tracked-species record of step 1, and a tracked-species record of       *)
(* another step without the terminal status changes no histogram and not   *)
(* the flag.                                                               *)
(***************************************************************************)
C4_SignalOnlyAtCreation ==
    [][IsStep =>
          /\ nSignals' /= nSignals => (Muon(track.particle) /\ track'.stepNo = 1)
          /\ (Muon(track.particle) /\ track'.stepNo /= 1 /\ track'.status /= "fStopAndKill")
                => (h1' = h1 /\ fKeepThisEvent' = fKeepThisEvent)]_vars

(***************************************************************************)
(* C4, amended: the step action signals the event action for every         *)
(* tracked-species record, whatever its step number, and for no other      *)
(* record; a tracked-species record of a step other than 1 without the     *)
(* terminal status changes no histogram and leaves the flag set.           *)
(***************************************************************************)
C4_SignalAtEveryTrackedStep ==
    [][IsStep =>
          /\ nSignals' /= nSignals <=> (Muon(track.particle) /\ EventActionRegistered)
          /\ (Muon(track.particle) /\ track'.stepNo /= 1 /\ track'.status /= "fStopAndKill")
                => (h1' = h1 /\ (EventActionRegistered => fKeepThisEvent'))]_vars

C4_Witness ==
    /\ pc = "track"
    /\ Muon(track.particle)
    /\ track.stepNo = 2
    /\ track.status = "fAlive"
    /\ nSignals = 2

(***************************************************************************)
(* C5: a step record of a species other than mu+ and mu- leaves every      *)
(* histogram and the flag of the event action as they were, whatever its   *)
(* step number, status and volume.                                         *)
(***************************************************************************)
C5_OtherSpeciesIgnored ==
    [][(IsStep /\ ~Muon(track.particle))
          => (h1' = h1 /\ fKeepThisEvent' = fKeepThisEvent /\ nSignals' = nSignals)]_vars

\* a secondary proton was killed at its step 1 in an event that had seen a muon
C5_Witness ==
    /\ pc = "track"
    /\ track = [particle |-> "proton", stepNo |-> 1, status |-> "fStopAndKill"]
    /\ fKeepThisEvent
    /\ Total(0) = 1

(***************************************************************************)
(* C6: for a tracked species the step-1 record of kinetic energy E appends *)
(* exactly the sample E to histogram 0, and the terminal record at         *)
(* (x, y, z) in the registered volume of index i appends exactly           *)
(* sqrt(x^2 + y^2) to histogram 3, z to histogram 1 and i to histogram 2:  *)
(* the histograms hold, in order, what the records delivered.              *)
(***************************************************************************)
C6_Samples ==
    RunBegun =>
        /\ Entries(h1, 0) = delivered.energy
        /\ Entries(h1, 3) = delivered.radius
        /\ Entries(h1, 1) = delivered.z
        /\ Entries(h1, 2) = delivered.index

\* created with 55 MeV, stopped at (3, 4, -90) in the registered volume of index 2
C6_Witness ==
    /\ Entries(h1, 0) = << 55 >>
    /\ Entries(h1, 3) = << 5 >>
    /\ Entries(h1, 1) = << -90 >>
    /\ Entries(h1, 2) = << 2 >>

(***************************************************************************)
(* C7: a tracked-species record that terminates in a volume outside the    *)
(* registry raises no error, appends nothing to histogram 2 and still      *)
(* appends one sample to each of histograms 1 (z) and 3 (radius): each of  *)
(* the two holds one sample more than histogram 2 per such record.         *)
(***************************************************************************)
C7_UnresolvedStop ==
    /\ RunBegun => pc /= "aborted"
    /\ Total(1) = Total(2) + nUnresolvedStops
    /\ Total(3) = Total(2) + nUnresolvedStops

\* the only stop so far was outside the registry
C7_Witness ==
    /\ nUnresolvedStops = 1
    /\ Total(1) = 1
    /\ Total(3) = 1
    /\ Total(2) = 0

(***************************************************************************)
(* C8: at any moment of a run the number of samples in histogram 2 is the  *)
(* number of tracked-species terminal records whose pre-step volume is a   *)
(* registered target volume.                                               *)
(***************************************************************************)
C8_TargetCount == Total(2) = nTargetStops

C8_Witness == nTargetStops = 2 /\ Total(2) = 2

(***************************************************************************)
(* C9: after one build of any variant the i-th registered volume resolves  *)
(* to i, distinct registered volumes resolve to distinct indices even when *)
(* their names and materials are the same, and a volume outside the        *)
(* registry (world, gas, proton target) resolves to -1.                    *)
(***************************************************************************)
C9_Resolve ==
    pc = "geometry" =>
        /\ \A i \in 0..(GetNumTargetVolumes - 1) : TargetIndex(GetTargetNVolume(i)) = i
        /\ \A v, w \in 1..Len(lvs) :
              (Registered(v) /\ Registered(w) /\ v /= w) => TargetIndex(v) /= TargetIndex(w)
        /\ \A v \in 1..Len(lvs) :
              (~Registered(v) \/ lvs[v].name \in {"World", "WorldLV", "DTGasLogical",
                                                  "ProtonTargetLV"})
                 => TargetIndex(v) = -1

\* a registry that holds two distinct volumes of the same name and material
C9_Witness ==
    /\ pc = "geometry"
    /\ \E v, w \in 1..Len(lvs) :
          Registered(v) /\ Registered(w) /\ v /= w /\ lvs[v] = lvs[w]

(***************************************************************************)
(* C10: once the run has begun the analysis manager holds exactly the six  *)
(* histograms, ids 0 to 5, with the shapes of the specification, so every  *)
(* histogram the step action fills exists for the whole run.               *)
(***************************************************************************)
C10_SixHistograms ==
    RunBegun =>
        /\ Len(h1) = 6
        /\ \A id \in 0..5 :
              /\ h1[id + 1].nbins = << 100, 100, 10, 100, 100, 100 >>[id + 1]
              /\ h1[id + 1].xmin = << 0, -150, 0, 0, -150, 0 >>[id + 1]
              /\ h1[id + 1].xmax = << 200, 150, 10, 50, 150, 50 >>[id + 1]

(***************************************************************************)
(* C11: a terminal record of a tracked species whose pre-step volume is    *)
(* the gas volume appends z to histograms 1 and 4 and the radius to        *)
(* histograms 3 and 5 and nothing to histogram 2; a terminal record in any *)
(* other volume appends nothing to histograms 4 and 5.                     *)
(***************************************************************************)
C11_GasStop ==
    [][\A energy \in Energies, pos \in Positions, vol \in 1..Len(lvs) :
          (UserSteppingAction("fStopAndKill", energy, pos, vol) /\ Muon(track.particle))
             => IF lvs[vol].name = "DTGasLogical"
                THEN /\ Entries(h1', 1) = Append(Entries(h1, 1), pos[3])
                     /\ Entries(h1', 4) = Append(Entries(h1, 4), pos[3])
                     /\ Entries(h1', 3) = Append(Entries(h1, 3), Radius(pos))
                     /\ Entries(h1', 5) = Append(Entries(h1, 5), Radius(pos))
                     /\ Entries(h1', 2) = Entries(h1, 2)
                ELSE /\ Entries(h1', 4) = Entries(h1, 4)
                     /\ Entries(h1', 5) = Entries(h1, 5)]_vars

(***************************************************************************)
(* C12: the histograms are append-only: no hook removes a histogram,       *)
(* changes the name, the bin count or the bounds of one, or takes entries  *)
(* away from one (the entries before the hook are a prefix of the entries  *)
(* after it), and EndOfRunAction leaves every histogram as it was.         *)
(***************************************************************************)
C12_AppendOnly ==
    [][/\ Len(h1') >= Len(h1)
       /\ \A k \in DOMAIN h1 :
             /\ h1'[k].name = h1[k].name
             /\ h1'[k].nbins = h1[k].nbins
             /\ h1'[k].xmin = h1[k].xmin
             /\ h1'[k].xmax = h1[k].xmax
             /\ Len(h1'[k].entries) >= Len(h1[k].entries)
             /\ SubSeq(h1'[k].entries, 1, Len(h1[k].entries)) = h1[k].entries
       /\ (pc /= "done" /\ pc' = "done") => h1' = h1]_vars

\* the run has ended and the histograms still hold what was filled
C12_Witness ==
    /\ pc = "done"
    /\ Total(0) = 2
    /\ Total(1) = 2
    /\ Total(3) = 2

(***************************************************************************)
(* C13: right after one build of any variant, no two layers overlap along  *)
(* z: the distance of the centers of any two of them is at least half the  *)
(* sum of their thicknesses; the layers are the registered ones and the    *)
(* graphite proton target of muonTarget and openMuonTarget.                *)
(***************************************************************************)
C13_NoOverlap ==
    pc = "geometry" =>
        \A i, j \in DOMAIN pvs :
            (IsLayer(i) /\ IsLayer(j) /\ i /= j)
               => 2 * Abs(pvs[i].z - pvs[j].z) >= pvs[i].thickness + pvs[j].thickness

\* muonTarget is built; the proton target and the first converter touch
C13_Witness ==
    /\ pc = "geometry"
    /\ fDetectorType = "muonTarget"
    /\ \E i, j \in DOMAIN pvs :
          /\ lvs[pvs[i].logical].name = "ProtonTargetLV"
          /\ lvs[pvs[j].logical].name = "Converter_0_LV"
          /\ 2 * Abs(pvs[i].z - pvs[j].z) = pvs[i].thickness + pvs[j].thickness

(***************************************************************************)
(* C14, as claimed: one build of carbonStack registers 5 plates, 2 mm      *)
(* thick, with the centers -23 + 12 * i mm for i = 0..4, the first at      *)
(* -23 mm and the last at +23 mm.                                          *)
(***************************************************************************)
C14_PlatesFromMinus23 ==
    (pc = "geometry" /\ fDetectorType = "carbonStack") =>
        /\ GetNumTargetVolumes = 5
        /\ \A i \in 0..4 :
              /\ pvs[PlacementOf(GetTargetNVolume(i))].thickness = 2 * mm
              /\ pvs[PlacementOf(GetTargetNVolume(i))].z = (-23 + 12 * i) * mm
        /\ pvs[PlacementOf(GetTargetNVolume(0))].z = -23 * mm
        /\ pvs[PlacementOf(GetTargetNVolume(4))].z = 23 * mm

(***************************************************************************)
(* C14, amended: one build of carbonStack registers 5 plates, 2 mm thick,  *)
(* with the centers -24 + 12 * i mm for i = 0..4, the first at -24 mm and  *)
(* the last at +24 mm, and 10 mm between the facing sides of consecutive   *)
(* plates.                                                                 *)
(***************************************************************************)
C14_PlatesFromMinus24 ==
    (pc = "geometry" /\ fDetectorType = "carbonStack") =>
        /\ GetNumTargetVolumes = 5
        /\ \A i \in 0..4 :
              /\ pvs[PlacementOf(GetTargetNVolume(i))].thickness = 2 * mm
              /\ pvs[PlacementOf(GetTargetNVolume(i))].z = (-24 + 12 * i) * mm
        /\ pvs[PlacementOf(GetTargetNVolume(0))].z = -24 * mm
        /\ pvs[PlacementOf(GetTargetNVolume(4))].z = 24 * mm
        /\ \A i \in 0..3 :
              (pvs[PlacementOf(GetTargetNVolume(i + 1))].z - mm)
                 - (pvs[PlacementOf(GetTargetNVolume(i))].z + mm) = 10 * mm

C14_Witness ==
    /\ pc = "geometry"
    /\ fDetectorType = "carbonStack"
    /\ GetNumTargetVolumes = 5
    /\ lvs[GetTargetNVolume(4)].name = "Plate_4"

(***************************************************************************)
(* C15: right after a build of alternatingLayers, muonTarget or            *)
(* openMuonTarget the recorded bounds of the gas are in order, fDTZStart   *)
(* <= fDTZCenter <= fDTZEnd, fDTZCenter is the z at which the gas volume   *)
(* was placed, and fDTZEnd - fDTZStart is the gas thickness, 100 mm.       *)
(***************************************************************************)
C15_GasBounds ==
    (pc = "geometry" /\ fDetectorType \in {"alternatingLayers", "muonTarget",
                                           "openMuonTarget"}) =>
        /\ fDTZStart <= fDTZCenter
        /\ fDTZCenter <= fDTZEnd
        /\ \E k \in DOMAIN pvs : IsGas(k) /\ fDTZCenter = pvs[k].z
        /\ fDTZEnd - fDTZStart = 100 * mm

(***************************************************************************)
(* C16: right after a build exactly one volume is the scoring volume, the  *)
(* one fScoringVolume points to and the only one with the sensitive        *)
(* detector: for carbonStack and alternatingLayers the layer constructed   *)
(* last (the last plate, the last graphite layer), for muonTarget and      *)
(* openMuonTarget the graphite proton target, upstream of every other      *)
(* layer.                                                                  *)
(***************************************************************************)
C16_Scoring ==
    pc = "geometry" =>
        /\ fScoringVolume \in 1..Len(lvs)
        /\ sensitiveVolumes = {fScoringVolume}
        /\ fDetectorType \in {"carbonStack", "alternatingLayers"} =>
              /\ \A k \in DOMAIN pvs : IsLayer(k) => pvs[k].logical <= fScoringVolume
              /\ fScoringVolume = GetTargetNVolume(GetNumTargetVolumes - 1)
              /\ lvs[fScoringVolume].name =
                    IF fDetectorType = "carbonStack" THEN "Plate_4" ELSE "GraphiteLV"
        /\ fDetectorType \in {"muonTarget", "openMuonTarget"} =>
              /\ lvs[fScoringVolume] = LV("ProtonTargetLV", "G4_GRAPHITE")
              /\ \A k \in DOMAIN pvs :
                    IsLayer(k) => pvs[PlacementOf(fScoringVolume)].z <= pvs[k].z

\* alternatingLayers is built: the tenth layer, graphite, is the scoring volume
C16_Witness ==
    /\ pc = "geometry"
    /\ fDetectorType = "alternatingLayers"
    /\ fScoringVolume = GetTargetNVolume(9)
    /\ lvs[fScoringVolume].name = "GraphiteLV"
    /\ sensitiveVolumes = {fScoringVolume}

(***************************************************************************)
(* C17: right after a build every layer constructed, the scoring volume    *)
(* among them, is registered, the registry lists the layers in the order   *)
(* of their construction, and the scoring volume resolves to a registry    *)
(* index.                                                                  *)
(***************************************************************************)
C17_AllRegistered ==
    pc = "geometry" =>
        /\ \A k \in DOMAIN pvs : IsLayer(k) => Registered(pvs[k].logical)
        /\ \A i, j \in 0..(GetNumTargetVolumes - 1) :
              i < j => GetTargetNVolume(i) < GetTargetNVolume(j)
        /\ TargetIndex(fScoringVolume) >= 0

(***************************************************************************)
(* C18: right after a build of carbonStack or alternatingLayers the field  *)
(* is global (the field manager of the transportation manager has it);     *)
(* right after a build of muonTarget or openMuonTarget there is no global  *)
(* field and the only volume with a field manager of its own is the gas.   *)
(***************************************************************************)
C18_FieldPolicy ==
    pc = "geometry" =>
        /\ fDetectorType \in {"carbonStack", "alternatingLayers"} => globalField
        /\ fDetectorType \in {"muonTarget", "openMuonTarget"} =>
              /\ ~globalField
              /\ localFieldVolumes /= {}
              /\ \A v \in localFieldVolumes : lvs[v].name = "DTGasLogical"

(***************************************************************************)
(* C19: Construct with a detector type other than the four supported ones  *)
(* ends in the fatal exception: it returns no world volume, leaves the     *)
(* registry, the scoring volume and the recorded gas bounds as they were   *)
(* and makes no volume, and no hook runs after it.                         *)
(***************************************************************************)
C19_UnknownType ==
    /\ [][(pc = "start" /\ pc' /= "start"
           /\ fDetectorType \notin {"carbonStack", "alternatingLayers", "muonTarget",
                                    "openMuonTarget"})
             => /\ pc' = "aborted"
                /\ worldVolume' = 0
                /\ UNCHANGED << fTargetVolumes, fTargetPlacements, fScoringVolume,
                                fDTZStart, fDTZCenter, fDTZEnd, lvs, pvs >>]_vars
    /\ [][pc /= "aborted"]_vars

\* Construct failed in an assembly that has an event action registered
C19_Witness ==
    /\ pc = "aborted"
    /\ fDetectorType = "bogus"
    /\ userEventAction = "EventAction"
    /\ worldVolume = 0

(***************************************************************************)
(* C20: when a base material the supported variant asks for (air, carbon,  *)
(* graphite, tungsten) cannot be found, Construct ends in the fatal        *)
(* exception before it has registered or placed anything.                  *)
(***************************************************************************)
C20_MissingMaterial ==
    (pc /= "start" /\ KnownType(fDetectorType)
     /\ ~(Required(fDetectorType) \subseteq nistMaterials))
        => (pc = "aborted" /\ fTargetVolumes = << >> /\ pvs = << >>)

(***************************************************************************)
(* C27: at any moment of a run histograms 1 (stop z) and 3 (stop radius)   *)
(* hold one sample per tracked-species terminal record processed (since    *)
(* the first run began: the histograms are kept from run to run),          *)
(* histogram 2 holds no more samples than histogram 1, the gas histograms  *)
(* 4 and 5 hold equally many samples and no more than histogram 1, and     *)
(* histogram 0 (creation energy) holds one sample per tracked-species      *)
(* record of step 1.                                                       *)
(***************************************************************************)
C27_Totals ==
    RunBegun =>
        /\ Total(1) = nTargetStops + nUnresolvedStops
        /\ Total(3) = nTargetStops + nUnresolvedStops
        /\ Total(2) <= Total(1)
        /\ Total(4) = Total(5)
        /\ Total(4) <= Total(1)
        /\ Total(0) = Len(delivered.energy)

\* a second run with two records of step 1 with the terminal status, one in a
\* registered volume and one in the gas volume, whose samples ids 4 and 5 now take
C27_Witness ==
    /\ RunsBegun(h1) = 2
    /\ nTargetStops = 1
    /\ nUnresolvedStops = 1
    /\ Total(1) = 2
    /\ Total(3) = 2
    /\ Total(2) = 1
    /\ Total(4) = 1
    /\ Total(5) = 1
    /\ Total(0) = 2

(***************************************************************************)
(* C28: a record of a tracked species that is of step 1 and has the        *)
(* terminal status is taken as both a creation and a termination: it adds  *)
(* one sample to histogram 0 and one to each of histograms 3 and 1, and    *)
(* one to histogram 2 when its volume is registered.                       *)
(***************************************************************************)
C28_CreationAndTermination ==
    [][(IsStep /\ Muon(track.particle) /\ track'.stepNo = 1
        /\ track'.status = "fStopAndKill")
          => /\ \E energy \in Energies :
                   Entries(h1', 0) = Append(Entries(h1, 0), energy)
             /\ \E pos \in Positions :
                   /\ Entries(h1', 3) = Append(Entries(h1, 3), Radius(pos))
                   /\ Entries(h1', 1) = Append(Entries(h1, 1), pos[3])
             /\ nTargetStops' = nTargetStops + 1
                   => Len(Entries(h1', 2)) = Len(Entries(h1, 2)) + 1]_vars

\* a mu+ was killed at its step 1 in a registered volume
C28_Witness ==
    /\ pc = "track"
    /\ track = [particle |-> "mu+", stepNo |-> 1, status |-> "fStopAndKill"]
    /\ Total(0) = 1
    /\ Total(1) = 1
    /\ Total(3) = 1
    /\ Total(2) = 1

(***************************************************************************)
(* C24: the openMuonTarget build registers six tungsten converters of      *)
(* thicknesses 2.0, 0.5, 0.3, 0.3, 0.2, 0.2 mm with 5 mm between           *)
(* consecutive ones, and the front face of the gas is 10 mm behind the     *)
(* back face of the last converter.                                        *)
(***************************************************************************)
C24_SixPlates ==
    (pc = "geometry" /\ fDetectorType = "openMuonTarget") =>
        /\ GetNumTargetVolumes = 6
        /\ \A i \in 0..5 :
              /\ lvs[GetTargetNVolume(i)].material = "G4_W"
              /\ 10 * pvs[PlacementOf(GetTargetNVolume(i))].thickness
                    = << 20, 5, 3, 3, 2, 2 >>[i + 1] * mm
        /\ \A i \in 0..4 :
              LET a == pvs[PlacementOf(GetTargetNVolume(i))]
                  b == pvs[PlacementOf(GetTargetNVolume(i + 1))]
              IN  2 * (b.z - a.z) - (a.thickness + b.thickness) = 2 * 5 * mm
        /\ \E k \in DOMAIN pvs :
              LET last == pvs[PlacementOf(GetTargetNVolume(5))]
              IN  /\ IsGas(k)
                  /\ 2 * (pvs[k].z - last.z) - (pvs[k].thickness + last.thickness)
                        = 2 * 10 * mm

(***************************************************************************)
(* C29: right after a build of a variant that places the gas, the gas      *)
(* overlaps no layer along z: its front face, center minus half its        *)
(* thickness, is at or behind the back face of every layer, the last one   *)
(* constructed and the proton target included.                             *)
(***************************************************************************)
C29_GasBehindLayers ==
    pc = "geometry" =>
        /\ fDetectorType \in {"alternatingLayers", "muonTarget", "openMuonTarget"}
              => \E k \in DOMAIN pvs : IsGas(k)
        /\ \A k, j \in DOMAIN pvs :
              (IsGas(k) /\ IsLayer(j))
                 => 2 * pvs[k].z - pvs[k].thickness >= 2 * pvs[j].z + pvs[j].thickness

\* alternatingLayers is built: the gas begins where the last graphite layer ends
C29_Witness ==
    /\ pc = "geometry"
    /\ fDetectorType = "alternatingLayers"
    /\ \E k, j \in DOMAIN pvs :
          /\ IsGas(k)
          /\ pvs[j].logical = fScoringVolume
          /\ 2 * pvs[k].z - pvs[k].thickness = 2 * pvs[j].z + pvs[j].thickness

(***************************************************************************)
(* C30: after one build of any variant the registry holds at most 10       *)
(* volumes and every index the scan returns is below 10, so every sample   *)
(* of histogram 2 lies inside the range of its 10 bins and none is counted *)
(* as overflow.                                                            *)
(***************************************************************************)
C30_IndexRange ==
    /\ pc = "geometry" =>
          /\ GetNumTargetVolumes <= 10
          /\ \A v \in 1..Len(lvs) : TargetIndex(v) \in -1..9
    /\ RunBegun =>
          \A k \in DOMAIN Entries(h1, 2) :
              /\ h1[3].xmin <= Entries(h1, 2)[k]
              /\ Entries(h1, 2)[k] < h1[3].xmax

\* a stop in the tenth registered volume of alternatingLayers
C30_Witness ==
    /\ fDetectorType = "alternatingLayers"
    /\ GetNumTargetVolumes = 10
    /\ Entries(h1, 2) = << 9 >>

(***************************************************************************)
(* C22: the end of a track of a tracked species appends exactly one        *)
(* sample, the stop z, to the histogram GetMuonStoppingHistogram gives,    *)
(* and the end of a track of another species appends nothing to it.        *)
(***************************************************************************)
C22_SecondaryHistogram ==
    [][(pc = "track" /\ pc' = "event")
          => IF Muon(track.particle)
             THEN /\ ~fMuonStoppingHist'.null
                  /\ \E pos \in Positions :
                        fMuonStoppingHist'.entries
                           = Append(fMuonStoppingHist.entries, pos[3])
             ELSE fMuonStoppingHist' = fMuonStoppingHist]_vars

(***************************************************************************)
(* C25: over any sequence of SetDetectorType and Construct calls the       *)
(* registry is never reordered or shrunk: the registry before a step is a  *)
(* prefix of the registry after it, every registered volume keeps its      *)
(* index, and a Construct that builds appends its layers (5, 10, 5 or 3);  *)
(* two carbonStack builds give 10 entries.                                 *)
(***************************************************************************)
C25_RegistryGrows ==
    /\ [](built = << "carbonStack", "carbonStack" >> => GetNumTargetVolumes = 10)
    /\ [][/\ Len(fTargetVolumes') >= Len(fTargetVolumes)
          /\ SubSeq(fTargetVolumes', 1, Len(fTargetVolumes)) = fTargetVolumes
          /\ \A i \in 0..(GetNumTargetVolumes - 1) :
                /\ TargetIndex(GetTargetNVolume(i)) = i
                /\ TargetIndex(GetTargetNVolume(i))' = i
          /\ Len(built') > Len(built)
                => Len(fTargetVolumes') = Len(fTargetVolumes) +
                      (IF fDetectorType = "alternatingLayers" THEN 10
                       ELSE IF fDetectorType = "openMuonTarget" THEN 3 ELSE 5)]_vars

\* carbonStack was built twice
C25_Witness ==
    /\ built = << "carbonStack", "carbonStack" >>
    /\ GetNumTargetVolumes = 10
    /\ lvs[GetTargetNVolume(0)].name = "Plate_0"
    /\ lvs[GetTargetNVolume(5)].name = "Plate_0"

(***************************************************************************)
(* C26: whenever the summary loop of ConstructCarbonStack has run, after   *)
(* any sequence of SetDetectorType and Construct calls, fTargetPlacements  *)
(* is as long as fTargetVolumes and its i-th element is the placement of   *)
(* the i-th registered volume.                                             *)
(***************************************************************************)
C26_PlacementsMatch ==
    (built /= << >> /\ built[Len(built)] = "carbonStack") =>
        /\ Len(fTargetPlacements) = Len(fTargetVolumes)
        /\ \A i \in 1..Len(fTargetVolumes) :
              pvs[fTargetPlacements[i]].logical = fTargetVolumes[i]

(***************************************************************************)
(* C23: whatever subset of the six histograms the output file holds, the   *)
(* macro, once through, has written exactly one plot for each histogram    *)
(* in the file and has reported each of the six that is absent exactly     *)
(* once; an absent histogram does not stop it from plotting the others.    *)
(***************************************************************************)
C23_OnePlotEach ==
    pc = "closed" =>
        \A k \in DOMAIN histNamesSix :
            LET name == histNamesSix[k]
                nPlots == Cardinality({i \in DOMAIN plots : plots[i] = PdfName(name)})
                nReports == Cardinality({i \in DOMAIN notFound : notFound[i] = name})
            IN  IF name \in rootFile.names
                THEN nPlots = 1 /\ nReports = 0
                ELSE nPlots = 0 /\ nReports = 1

(***************************************************************************)
(* C21: a callback invoked against the lifecycle contract (a step record   *)
(* or an event end before the run began or before the reset of its event,  *)
(* a second reset within an event) makes the program fail, and updates     *)
(* neither the retention flag, nor the kernel's retention of the event,    *)
(* nor the histograms.                                                     *)
(***************************************************************************)
C21_ViolationFailsLoudly ==
    [][nViolations' > nViolations =>
          /\ pc' \in {"aborted", "crashed"}
          /\ UNCHANGED << fKeepThisEvent, keepTheEvent, h1 >>]_vars

====
